---- MODULE Spec2Model ----
(***************************************************************************)
(* Model of the viem-playground run pipeline: the Playground component's   *)
(* handleRun / handleStop / handleReset / handleClearLogs handlers, the    *)
(* iframe sandbox it creates, the runtime prelude's message emission and   *)
(* the host's message listener (src/src/components/Playground.tsx), with   *)
(* the compiler entry point of src/src/lib/esbuild.ts.                     *)
(*                                                                         *)
(* Separate specifications cover the parts that do not depend on a run:    *)
(* the value serializer (SerSpec), the rewriting of the compiled text      *)
(* (InsSpec), the initialisation of the compiler runtime (EsbSpec), the    *)
(* injection of the named constants (AbiSpec), the script effects          *)
(* (ScriptSpec) and the editor's latestByKey (LogSpec).                    *)
(*                                                                         *)
(* One action is one host task together with the microtasks it triggers:   *)
(* the continuation of an await whose promise is settled inside a callback *)
(* runs before any other task, so callback and continuation are one step.  *)
(***************************************************************************)
EXTENDS Integers, Sequences, FiniteSets, TLC

\* ------------------------------------------------------------- bounds
MaxRuns == 2        \* accepted handleRun calls (runs are numbered in start order)

Runs == 1..MaxRuns

Null == "null"

\* ------------------------------------------------------------- texts
\* A text is a sequence of statements.  A statement is a record
\* [k, name, ann]: k is its kind, name the declared identifier or the
\* trace key, ann tells whether a TypeScript annotation is present.
Decl(n, a) == [k |-> "decl", name |-> n, ann |-> a]
ImportStmt == [k |-> "import", name |-> "viem", ann |-> FALSE]
BundledModule == [k |-> "bundled", name |-> "viem", ann |-> FALSE]
ConsoleCall == [k |-> "console.log", name |-> "", ann |-> FALSE]
BadStmt == [k |-> "syntax-error", name |-> "", ann |-> FALSE]
RejectStmt == [k |-> "Promise.reject", name |-> "", ann |-> FALSE]
LogCall(key) == [k |-> "__log", name |-> key, ann |-> FALSE]
Unset == << [k |-> "unset", name |-> "", ann |-> FALSE] >>

\* getDefaultCode(): imports, declarations, then console.log calls
getDefaultCode == << ImportStmt, Decl("x", FALSE), ConsoleCall >>
\* a script that fails twice at run time, after a declaration, and ends
\* with an annotated declaration
SrcFaulty == << Decl("y", FALSE), RejectStmt, RejectStmt, Decl("z", TRUE) >>
\* a script that does not compile
SrcBad == << BadStmt >>
Sources == {getDefaultCode, SrcFaulty, SrcBad}
\* a script whose variable is named like a key the prelude uses
SrcReserved == << Decl("success", FALSE), ConsoleCall >>

\* extractUserVarNames(src): names of the declarations of the given text
\* that declRegex matches (keyword, name, "="): not the annotated ones
extractUserVarNames(src) ==
    {src[i].name : i \in {j \in DOMAIN src : src[j].k = "decl" /\ ~src[j].ann}}

\* esbuild's lowering of one TypeScript statement: annotations are erased,
\* an import is replaced by the fetched module (bundle: true)
Lower(s) == IF s.k = "decl" THEN Decl(s.name, FALSE)
            ELSE IF s.k = "import" THEN BundledModule
            ELSE s

\* transpileCode succeeds only on a text without syntax errors ...
Compiles(src) == \A i \in DOMAIN src : src[i].k # "syntax-error"
\* ... and then returns the lowered text
transpileCode(src) == [i \in DOMAIN src |-> Lower(src[i])]

\* the diagnostic the toolchain throws (err.message) for a text
ToolchainMessage(src) ==
    IF Compiles(src) THEN "Failed to fetch https://esm.sh/viem" ELSE "Build failed: syntax error"

\* the rewriting of handleRun: a __log call after each declaration of a
\* user name, and every console.log call turned into __log("console", ..)
RECURSIVE Instrument(_, _)
Instrument(js, names) ==
    IF js = <<>> THEN <<>>
    ELSE LET s == Head(js)
             rest == Instrument(Tail(js), names)
         IN  IF s.k = "decl" /\ s.name \in names THEN <<s, LogCall(s.name)>> \o rest
             ELSE IF s.k = "console.log" THEN <<LogCall("console")>> \o rest
             ELSE <<s>> \o rest

\* what handleRun hands to the compiler
CompilerInputLate(src) == Instrument(src, extractUserVarNames(src))
CompilerInput(src) == src

\* ------------------------------------------------------------- state
VARIABLES
    code,          \* the editor text (useState code)
    isRunning,     \* useState isRunning
    logs,          \* useState logs: the host's trace-event list
    error,         \* useState error
    started,       \* number of runs started so far; the latest run's id
    pc,            \* per run: where its handleRun invocation is
    runCode,       \* per run: the code its handleRun closure captured
    iframe,        \* per run: its iframe element
    listener,      \* per run: its messageHandler is registered on window
    loadTimer,     \* per run: the 5 s load timeout
    cleanupTimer,  \* per run: the 8 s cleanup timeout
    task,          \* per run: tasks of the user module run so far
    ctxBuf,        \* per run: window.__logs inside the context
    chan,          \* per run: messages posted to the parent, not yet delivered
    compilerIn,    \* per run: the text handed to transpileCode
    compilerOut,   \* per run: the text transpileCode returned
    loadedText,    \* per run: the text of the injected user module
    ignoredCall,   \* the last step was a handleRun call made while running
    errored,       \* registered listeners that have surfaced an ERROR message
    halted,        \* stop or reset was called on the latest run, still in progress
    stopCall,      \* the last step was a handleStop call
    resetCall,     \* the last step was a handleReset call
    heap,          \* the objects and arrays of the value given to window.__log
    defined,       \* the nodes of heap the script has built
    serRoot,       \* the value given to window.__log
    serOut,        \* what window.__safeSerialize(serRoot) returned or threw
    serLogs,       \* window.__logs of the context that logs serRoot
    insSrc,        \* a source text, as a sequence of statements of tokens
    insOut,        \* the compiled text of insSrc after the rewriting of handleRun
    insAgain,      \* insOut after the same rewriting once more
    esbuildInitialized, \* the module variable of lib/esbuild.ts
    callPc,        \* per transpileCode call: where the call is
    initializing,  \* esbuild.initialize invocations made so far
    storedABIs,    \* the names of the rows of abiDb.abis
    globalABIs,    \* the names of the table handleRun builds from the rows
    window,        \* the global bindings of an execution context
    injected,      \* the scripts injected into that context so far
    currentScript, \* the currentScript prop of Playground
    scripts,       \* useState scripts of ScriptManager: the listed rows
    stored,        \* the content column of scriptDb.scripts
    editorLogs,    \* the logs prop of CodeEditor
    now            \* Date.now(), in milliseconds

runRest == <<isRunning, logs, error, started, pc, runCode, iframe, listener, loadTimer,
          cleanupTimer, task, ctxBuf, chan, compilerIn, compilerOut, loadedText,
          ignoredCall, errored, halted, stopCall, resetCall>>
runVars == <<code, isRunning, logs, error, started, pc, runCode, iframe, listener, loadTimer,
          cleanupTimer, task, ctxBuf, chan, compilerIn, compilerOut, loadedText,
          ignoredCall, errored, halted, stopCall, resetCall>>
serVars == <<heap, defined, serRoot, serOut, serLogs>>
insVars == <<insSrc, insOut, insAgain>>
esbVars == <<esbuildInitialized, callPc, initializing>>
abiVars == <<storedABIs, globalABIs, window, injected>>
scrVars == <<currentScript, scripts, stored>>
logVars == <<editorLogs, now>>
auxVars == <<esbVars, abiVars, scrVars, logVars>>
pureVars == <<serVars, insVars, auxVars>>
vars == <<runVars, pureVars>>

hostVars == <<isRunning, logs, error>>
textVars == <<runCode, compilerIn, compilerOut, loadedText>>
ctxVars == <<task, ctxBuf, chan>>

\* the keys the host's listener drops
internalKeys == {"run", "script", "viem", "user-code", "success", "iframe", "error"}

\* a LogEntry; origin is the run whose context produced it, 0 for the host
Entry(key, value, origin, seq) == [key |-> key, value |-> value, origin |-> origin, seq |-> seq]
HostEntry(value) == Entry("error", value, 0, 0)
\* a posted message {type, payload}; an ERROR's payload carries the message
\* text in the value field
LogMsg(e) == [type |-> "LOG", payload |-> e]
ErrorMsg(m, r) == [type |-> "ERROR", payload |-> Entry("", m, r, 0)]

InitRunFrom(texts) ==
    /\ code \in texts
    /\ isRunning = FALSE
    /\ logs = <<>>
    /\ error = Null
    /\ started = 0
    /\ pc = [r \in Runs |-> "new"]
    /\ runCode = [r \in Runs |-> Unset]
    /\ iframe = [r \in Runs |-> "none"]
    /\ listener = [r \in Runs |-> FALSE]
    /\ loadTimer = [r \in Runs |-> "unset"]
    /\ cleanupTimer = [r \in Runs |-> "unset"]
    /\ task = [r \in Runs |-> 0]
    /\ ctxBuf = [r \in Runs |-> <<>>]
    /\ chan = [r \in Runs |-> <<>>]
    /\ compilerIn = [r \in Runs |-> Unset]
    /\ compilerOut = [r \in Runs |-> Unset]
    /\ loadedText = [r \in Runs |-> Unset]
    /\ ignoredCall = FALSE
    /\ errored = {}
    /\ halted = FALSE
    /\ stopCall = FALSE
    /\ resetCall = FALSE

InitRun == InitRunFrom(Sources)

\* ------------------------------------------------------------- rewriting, on tokens
\* The regular expressions of handleRun, on texts that are sequences of
\* tokens; white space is not kept, and "console.log" is one token.
Kw == {"const", "let", "var"}
Idents == {"x", "t", "client", "createPublicClient", "f"}
NoText == <<"unset">>

\* sample statements
SDecl == <<"const", "x", "=", "1", ";">>
STyped == <<"const", "t", ":", "number", "=", "1", ";">>
SClient == <<"const", "client", "=", "createPublicClient", "(", ")", ";">>
SConsole == <<"console.log", "(", "'x='", ",", "5", ",", "true", ")", ";">>
SConsoleCall == <<"console.log", "(", "f", "(", "1", ")", ",", "2", ")", ";">>
StmtSamples == {SDecl, STyped, SClient, SConsole, SConsoleCall}

MaxStmts == 3       \* statements of a source text
SourceTexts == UNION {[1..n -> StmtSamples] : n \in 1..MaxStmts}

RECURSIVE Flatten(_)
Flatten(stmts) == IF stmts = <<>> THEN <<>> ELSE Head(stmts) \o Flatten(Tail(stmts))

\* esbuild on tokens: a type annotation is erased
RECURSIVE Erase(_)
Erase(ts) ==
    IF ts = <<>> THEN <<>>
    ELSE IF Head(ts) = ":" /\ Len(ts) >= 2 THEN Erase(Tail(Tail(ts)))
    ELSE <<Head(ts)>> \o Erase(Tail(ts))

\* declRegex of extractUserVarNames: keyword, name, "="
userVarNames(ts) ==
    {ts[i + 1] : i \in {j \in 1..(Len(ts) - 2) :
                           ts[j] \in Kw /\ ts[j + 1] \in Idents /\ ts[j + 2] = "="}}

\* the index of the first token tok of ts at or after i, 0 when there is none
RECURSIVE IndexFrom(_, _, _)
IndexFrom(ts, i, tok) ==
    IF i > Len(ts) THEN 0 ELSE IF ts[i] = tok THEN i ELSE IndexFrom(ts, i + 1, tok)

\* the replacement text __log("name", name);
LogTokens(n) == <<"__log", "(", "'", n, "'", ",", n, ")", ";">>

\* declAssignRe, replaced globally: keyword, a name of names, "=", one or
\* more tokens other than ";", then ";"
RECURSIVE declAssign(_, _)
declAssign(ts, names) ==
    IF ts = <<>> THEN <<>>
    ELSE LET semi == IndexFrom(ts, 5, ";")
         IN  IF /\ Len(ts) >= 5
                /\ ts[1] \in Kw
                /\ ts[2] \in names
                /\ ts[3] = "="
                /\ ts[4] # ";"
                /\ semi # 0
             THEN SubSeq(ts, 1, semi) \o LogTokens(ts[2])
                  \o declAssign(SubSeq(ts, semi + 1, Len(ts)), names)
             ELSE <<Head(ts)>> \o declAssign(Tail(ts), names)

\* the console.log expression /console\.log\(([^)]*)\);?/g with its
\* replacement __log("console", [ $1 ]);
RECURSIVE consoleRewrite(_)
consoleRewrite(ts) ==
    IF ts = <<>> THEN <<>>
    ELSE LET close == IndexFrom(ts, 3, ")")
             next == IF close < Len(ts) /\ ts[close + 1] = ";" THEN close + 2 ELSE close + 1
         IN  IF Len(ts) >= 3 /\ ts[1] = "console.log" /\ ts[2] = "(" /\ close # 0
             THEN <<"__log", "(", "'", "console", "'", ",", "[">> \o SubSeq(ts, 3, close - 1)
                  \o <<"]", ")", ";">> \o consoleRewrite(SubSeq(ts, next, Len(ts)))
             ELSE <<Head(ts)>> \o consoleRewrite(Tail(ts))

\* the rewriting of handleRun on a text; the samples hold no destructuring
\* declaration, which destrRe alone matches
rewrite(ts, names) == consoleRewrite(IF names = {} THEN ts ELSE declAssign(ts, names))

InitIns ==
    /\ insSrc \in SourceTexts
    /\ insOut = NoText
    /\ insAgain = NoText

\* no text is rewritten
InitInsIdle ==
    /\ insSrc = <<SDecl>>
    /\ insOut = NoText
    /\ insAgain = NoText

\* handleRun's rewriting of the compiled text of insSrc
RewriteCompiled ==
    /\ insOut = NoText
    /\ insOut' = rewrite(Erase(Flatten(insSrc)), userVarNames(Flatten(insSrc)))
    /\ UNCHANGED <<insSrc, insAgain, runVars, serVars, auxVars>>

\* the same rewriting applied to its own output
RewriteAgain ==
    /\ insOut # NoText
    /\ insAgain = NoText
    /\ insAgain' = rewrite(insOut, userVarNames(Flatten(insSrc)))
    /\ UNCHANGED <<insSrc, insOut, runVars, serVars, auxVars>>

\* ------------------------------------------------------------- serializer
\* window.__safeSerialize, on values built from primitives, plain objects
\* and arrays.  A value is a primitive or a reference to a heap node; a
\* node is a plain object or an array with one or two entries, in key order.
maxDepth == 3
MaxNodes == 4       \* objects and arrays of the logged value

Nodes == 1..MaxNodes
Leaf(k) == [leaf |-> k, ref |-> 0]
Ref(n) == [leaf |-> "node", ref |-> n]
\* the number 1; undefined; new Date(NaN); a property whose getter throws
LeafKinds == {"number", "undefined", "invalid-date", "getter"}
\* the nodes that may have two entries
WideNodes == {1, 2}

DefaultNode == [kind |-> "object", kids |-> <<Leaf("number")>>]

Min(a, b) == IF a < b THEN a ELSE b

\* the entries node n may hold: a primitive, or a node numbered at most
\* one more than itself
KidValues(n) == {Leaf(k) : k \in LeafKinds} \cup {Ref(m) : m \in 1..Min(n + 1, MaxNodes)}

NodeShapes(n) ==
    {[kind |-> c, kids |-> <<k1>>] : c \in {"object", "array"}, k1 \in KidValues(n)}
    \cup (IF n \in WideNodes
          THEN {[kind |-> c, kids |-> <<k1, k2>>] :
                   c \in {"object", "array"}, k1 \in KidValues(n), k2 \in KidValues(n)}
          ELSE {})

Refers(shape, m) == \E i \in DOMAIN shape.kids : shape.kids[i] = Ref(m)

\* a serialized value, or an exception (t = "throw"); node names the
\* object or array a structure was made from
Out(t, v) == [t |-> t, v |-> v, node |-> 0, kids |-> <<>>]
Str(v) == Out("string", v)
Struct(t, n, kids) == [t |-> t, v |-> "", node |-> n, kids |-> kids]
Throw(v) == Out("throw", v)
Pending == Out("pending", "")

\* if (depth > maxDepth) return '[MaxDepth]'
DepthExceededFrom(depth) == depth >= maxDepth
DepthExceeded(depth) == depth > maxDepth

\* if (seen.has(val)) return '[Circular]'
SeenNever(n, seen) == FALSE
Seen(n, seen) == n \in seen

\* inner(val, depth) with the WeakSet seen it updates: the result is the
\* value returned or the exception thrown, and seen as the call leaves it.
\* MapKids is the loop over the entries of node n from entry i on: the
\* for loop over Object.keys with its try/catch per key of an object,
\* val.map of an array.  Reading an entry whose getter throws throws.
RECURSIVE inner(_, _, _)
RECURSIVE MapKids(_, _, _, _, _)
MapKids(n, i, depth, seen, acc) ==
    IF i > Len(heap[n].kids) THEN [outs |-> acc, seen |-> seen, err |-> Pending]
    ELSE LET kid == heap[n].kids[i]
             r == IF kid.leaf = "getter"
                  THEN [out |-> Throw("Error: getter"), seen |-> seen]
                  ELSE inner(kid, depth + 1, seen)
         IN  IF r.out.t = "throw"
             THEN IF heap[n].kind = "array"
                  THEN [outs |-> acc, seen |-> r.seen, err |-> r.out]
                  ELSE MapKids(n, i + 1, depth, r.seen, Append(acc, Str("[Unserializable]")))
             ELSE MapKids(n, i + 1, depth, r.seen, Append(acc, r.out))

inner(val, depth, seen) ==
    IF DepthExceeded(depth) THEN [out |-> Str("[MaxDepth]"), seen |-> seen]
    ELSE IF val.leaf = "number" THEN [out |-> Out("number", "1"), seen |-> seen]
    ELSE IF val.leaf = "invalid-date"
         THEN [out |-> Throw("RangeError: Invalid time value"), seen |-> seen]
    ELSE IF val.leaf = "node" /\ heap[val.ref].kind = "array"
         THEN LET m == MapKids(val.ref, 1, depth, seen, <<>>)
              IN  [out |-> IF m.err.t = "throw" THEN m.err ELSE Struct("array", val.ref, m.outs),
                   seen |-> m.seen]
    ELSE IF val.leaf = "node"
         THEN IF Seen(val.ref, seen) THEN [out |-> Str("[Circular]"), seen |-> seen]
              ELSE LET m == MapKids(val.ref, 1, depth, seen \cup {val.ref}, <<>>)
                   IN  [out |-> Struct("object", val.ref, m.outs), seen |-> m.seen]
    \* undefined: JSON.parse(JSON.stringify(val)) throws, String(val)
    ELSE [out |-> Str("undefined"), seen |-> seen]

\* window.__safeSerialize(value)
safeSerialize(value) == inner(value, 0, {}).out

\* the values a script may log
Roots == {Leaf(k) : k \in LeafKinds \ {"getter"}} \cup {Ref(1)}

InitSer ==
    /\ serRoot \in Roots
    /\ heap = [n \in Nodes |-> DefaultNode]
    /\ defined = 0
    /\ serOut = Pending
    /\ serLogs = <<>>

\* no value is logged
InitSerIdle ==
    /\ serRoot = Leaf("number")
    /\ heap = [n \in Nodes |-> DefaultNode]
    /\ defined = 0
    /\ serOut = Pending
    /\ serLogs = <<>>


\* the value refers to a node the script has not built yet
Dangling ==
    \/ serRoot = Ref(1) /\ defined = 0
    \/ defined \in 1..(MaxNodes - 1) /\ Refers(heap[defined], defined + 1)

\* the script builds the next object or array of the value
DefineNode ==
    /\ serOut = Pending
    /\ Dangling
    /\ defined' = defined + 1
    /\ \E sh \in NodeShapes(defined + 1) : heap' = [heap EXCEPT ![defined + 1] = sh]
    /\ UNCHANGED <<serRoot, serOut, serLogs, runVars, insVars, auxVars>>

\* window.__log("x", serRoot): the value is serialized, and unless that
\* throws out of the call, the event is pushed to window.__logs
LogValue ==
    /\ serOut = Pending
    /\ ~Dangling
    /\ serOut' = safeSerialize(serRoot)
    /\ serLogs' = IF serOut'.t = "throw" THEN serLogs
                  ELSE Append(serLogs, [key |-> "x", value |-> serOut'])
    /\ UNCHANGED <<heap, defined, serRoot, runVars, insVars, auxVars>>

\* ------------------------------------------------------------- compiler runtime
\* lib/esbuild.ts: initializeEsbuild as transpileCode calls it.  The calls
\* are numbered in the order they are made.
MaxCalls == 3       \* transpileCode calls

Calls == 1..MaxCalls

InitEsbuild ==
    /\ esbuildInitialized = FALSE
    /\ callPc = [c \in Calls |-> "new"]
    /\ initializing = 0

\* the calls whose esbuild.initialize invocation is pending
PendingInit == {c \in Calls : callPc[c] = "initialize"}

\* if (esbuildInitialized) return
Initialized(flag) == flag

\* transpileCode(code) is called: initializeEsbuild runs up to its await,
\* which invokes esbuild.initialize unless the flag is set
TranspileCall(c) ==
    /\ callPc[c] = "new"
    /\ \A d \in Calls : d < c => callPc[d] # "new"
    /\ IF Initialized(esbuildInitialized)
       THEN /\ callPc' = [callPc EXCEPT ![c] = "build"]
            /\ UNCHANGED initializing
       ELSE /\ callPc' = [callPc EXCEPT ![c] = "initialize"]
            /\ initializing' = initializing + 1
    /\ UNCHANGED <<esbuildInitialized, runVars, serVars, insVars, abiVars, scrVars, logVars>>

\* the esbuild.initialize promise of call c resolves: the flag is set and
\* esbuild.build is called
InitializeResolved(c) ==
    /\ callPc[c] = "initialize"
    /\ esbuildInitialized' = TRUE
    /\ callPc' = [callPc EXCEPT ![c] = "build"]
    /\ UNCHANGED <<initializing, runVars, serVars, insVars, abiVars, scrVars, logVars>>

\* esbuild.initialize throws or its promise rejects: the catch block rethrows
InitializeRejected(c) ==
    /\ callPc[c] = "initialize"
    /\ callPc' = [callPc EXCEPT ![c] = "init-thrown"]
    /\ UNCHANGED <<esbuildInitialized, initializing, runVars, serVars, insVars, abiVars,
                   scrVars, logVars>>

\* esbuild.build settles: transpileCode returns the text or rethrows
BuildSettled(c) ==
    /\ callPc[c] = "build"
    /\ \E o \in {"returned", "thrown"} : callPc' = [callPc EXCEPT ![c] = o]
    /\ UNCHANGED <<esbuildInitialized, initializing, runVars, serVars, insVars, abiVars,
                   scrVars, logVars>>

EsbNext ==
    \/ \E c \in Calls : TranspileCall(c)
    \/ \E c \in Calls : InitializeResolved(c)
    \/ \E c \in Calls : InitializeRejected(c)
    \/ \E c \in Calls : BuildSettled(c)

\* ------------------------------------------------------------- named constants
\* handleAddABI of ABIManager, and the globalABIs table of handleRun with
\* its injection in iframe.onload.  A binding of window is "undefined", or
\* names the script that made it; window is Null while no context exists.
PreludeGlobals == {"__logs", "__safeSerialize", "__formatConsole", "__log"}
\* the names a user may give to an ABI: the form takes any text
AbiNames == {"erc20Abi", "wethAbi", "__globalABIs"} \cup PreludeGlobals
GlobalNames == AbiNames

InitAbis ==
    /\ storedABIs = {}
    /\ globalABIs = {}
    /\ window = Null
    /\ injected = "none"

\* handleAddABI: abiDb.abis.add({name: newAbi.name, ...})
handleAddABI(name) ==
    /\ name \notin storedABIs
    /\ storedABIs' = storedABIs \cup {name}
    /\ UNCHANGED <<globalABIs, window, injected, runVars, serVars, insVars, esbVars,
                   scrVars, logVars>>

\* handleRun: storedABIs.forEach((abi) => { globalABIs[abi.name] = abi.abi })
ReadABIs ==
    /\ injected = "none"
    /\ globalABIs' = storedABIs
    /\ injected' = "table"
    /\ UNCHANGED <<storedABIs, window, runVars, serVars, insVars, esbVars, scrVars, logVars>>

\* the window of the document of a new iframe
NewWindow == [g \in GlobalNames |-> "undefined"]

\* the runtime prelude, a classic script, runs when it is appended
Prelude(w) == [g \in GlobalNames |-> IF g \in PreludeGlobals THEN "prelude" ELSE w[g]]

\* the globalABIs script: window.__globalABIs = table, then window[name] = abi
\* for each entry of the table
Constants(w, table) ==
    [g \in GlobalNames |-> IF g \in table THEN "abi"
                           ELSE IF g = "__globalABIs" THEN "table"
                           ELSE w[g]]

\* iframe.onload: prelude, named constants and user module are appended in
\* this order; the two classic scripts run at once, the module later
InjectScripts ==
    /\ injected = "table"
    /\ window' = Constants(Prelude(NewWindow), globalABIs)
    /\ injected' = "scripts"
    /\ UNCHANGED <<storedABIs, globalABIs, runVars, serVars, insVars, esbVars, scrVars,
                   logVars>>

\* the user module starts
ModuleStart ==
    /\ injected = "scripts"
    /\ injected' = "module"
    /\ UNCHANGED <<storedABIs, globalABIs, window, runVars, serVars, insVars, esbVars,
                   scrVars, logVars>>

AbiNext ==
    \/ \E name \in AbiNames : handleAddABI(name)
    \/ ReadABIs
    \/ InjectScripts
    \/ ModuleStart

\* ------------------------------------------------------------- stored scripts
\* The script effects of Playground with handleLoadScript of ScriptManager.
\* A step is a state change with the effects of the render it causes.
MaxScripts == 2     \* rows of scriptDb.scripts

ScriptIds == 1..MaxScripts
NoScript == [id |-> 0, content |-> <<>>]
\* the texts an editor may hold; a script is created with the empty text
ScriptTexts == {<<>>, getDefaultCode, SrcFaulty}

InitScripts ==
    /\ currentScript = NoScript
    /\ scripts = [i \in ScriptIds |-> <<>>]
    /\ stored = [i \in ScriptIds |-> <<>>]

\* the auto-save effect, run with the code and the currentScript of one
\* render: scriptDb.scripts.update(currentScript.id, {content: code})
AutoSave(rows, text, script) ==
    IF script # NoScript /\ text # script.content
    THEN [rows EXCEPT ![script.id] = text]
    ELSE rows

\* handleLoadScript(script) of a listed row that is not the current one:
\* setCurrentScript(script); in the render that follows code is the text
\* the editor held, and its effects run in order: loadScriptContent calls
\* setCode(currentScript.content), auto-save compares the render's code
\* with currentScript.content.  The render after setCode saves nothing.
handleLoadScript(i) ==
    LET script == [id |-> i, content |-> scripts[i]]
    IN  /\ script # currentScript
        /\ currentScript' = script
        /\ stored' = AutoSave(stored, code, script)
        /\ code' = script.content
        /\ UNCHANGED <<scripts, runRest, serVars, insVars, esbVars, abiVars, logVars>>

\* onChange of the editor: setCode(value), then the auto-save effect
EditCode(text) ==
    /\ text # code
    /\ code' = text
    /\ stored' = AutoSave(stored, text, currentScript)
    /\ UNCHANGED <<currentScript, scripts, runRest, serVars, insVars, esbVars, abiVars,
                   logVars>>

\* loadScripts of ScriptManager: setScripts(await scriptDb.scripts.toArray())
loadScripts ==
    /\ scripts # stored
    /\ scripts' = stored
    /\ UNCHANGED <<currentScript, stored, runVars, serVars, insVars, esbVars, abiVars,
                   logVars>>

ScriptNext ==
    \/ \E i \in ScriptIds : handleLoadScript(i)
    \/ \E text \in ScriptTexts : EditCode(text)
    \/ loadScripts

\* ------------------------------------------------------------- inline values
\* latestByKey of CodeEditor over its logs prop.  An event is stamped with
\* Date.now() by window.__log; value numbers the events in arrival order.
MaxEvents == 4      \* events received
MaxTime == 2        \* milliseconds that pass

LogKeys == {"x", "y"}

InitEditorLogs ==
    /\ editorLogs = <<>>
    /\ now = 0

\* the condition under which an entry replaces the one kept for its key
Replaces(existing, entry) == existing.timestamp < entry.timestamp

\* the loop of latestByKey over the entries from index i on; map holds for
\* each key the entry kept, None for a key without entry
None == [key |-> "", value |-> 0, timestamp |-> 0]
RECURSIVE latestFrom(_, _, _)
latestFrom(list, i, map) ==
    IF i > Len(list) THEN map
    ELSE LET entry == list[i]
             existing == map[entry.key]
         IN  latestFrom(list, i + 1,
                        IF existing = None \/ Replaces(existing, entry)
                        THEN [map EXCEPT ![entry.key] = entry]
                        ELSE map)

latestByKey(list) == latestFrom(list, 1, [k \in LogKeys |-> None])

\* a millisecond passes
Tick ==
    /\ now < MaxTime
    /\ now' = now + 1
    /\ UNCHANGED <<editorLogs, runVars, serVars, insVars, esbVars, abiVars, scrVars>>

\* window.__log(key, value) in the context, handleLog in the host
ReceiveEvent(key) ==
    /\ Len(editorLogs) < MaxEvents
    /\ editorLogs' = Append(editorLogs, [key |-> key, value |-> Len(editorLogs) + 1,
                                         timestamp |-> now])
    /\ UNCHANGED <<now, runVars, serVars, insVars, esbVars, abiVars, scrVars>>

LogNext ==
    \/ Tick
    \/ \E key \in LogKeys : ReceiveEvent(key)

InitAux == InitEsbuild /\ InitAbis /\ InitScripts /\ InitEditorLogs
SerInit == InitRun /\ code = getDefaultCode /\ InitSer /\ InitInsIdle /\ InitAux
Init == InitRun /\ InitSerIdle /\ InitInsIdle /\ InitAux
\* nothing runs, nothing is logged, no text is rewritten
InitIdle == InitRun /\ code = getDefaultCode /\ InitSerIdle /\ InitInsIdle /\ InitAux

EsbSpec == InitIdle /\ [][EsbNext]_vars
AbiSpec == InitIdle /\ [][AbiNext]_vars
ScriptSpec == InitIdle /\ [][ScriptNext]_vars
LogSpec == InitIdle /\ [][LogNext]_vars

SerNext == DefineNode \/ LogValue
SerSpec == SerInit /\ [][SerNext]_vars

InsInit == InitRun /\ code = getDefaultCode /\ InitSerIdle /\ InitIns /\ InitAux
InsNext == RewriteCompiled \/ RewriteAgain
InsSpec == InsInit /\ [][InsNext]_vars

\* ------------------------------------------------------------- helpers
\* handleLog: setLogs(prev => [...prev, log])
handleLogFront(prev, log) == <<log>> \o prev
handleLog(prev, log) == Append(prev, log)

\* handleError: setError(error.message); setIsRunning(false)
handleErrorKeepRunning(msg) == [error |-> msg, isRunning |-> TRUE]
handleErrorGeneric(msg) == [error |-> "Execution error", isRunning |-> FALSE]
handleError(msg) == [error |-> msg, isRunning |-> FALSE]

\* the guard of handleRun: if (isRunning) return
RunBlockedNever(flag) == FALSE
RunBlocked(flag) == flag

\* the run r ends: when it is the latest run, no stop call is pending on it
Ended(r) == halted' = (halted /\ r # started)

\* the catch block of handleRun for run r: handleError(err); setIsRunning(false)
Catch(r, msg) ==
    /\ error' = handleError(msg).error
    /\ isRunning' = FALSE
    /\ pc' = [pc EXCEPT ![r] = "failed"]
    /\ Ended(r)

\* ------------------------------------------------------------- handleRun
HandleRun ==
    IF RunBlocked(isRunning)
    THEN /\ ignoredCall' = TRUE
         /\ stopCall' = FALSE
         /\ resetCall' = FALSE
         /\ UNCHANGED pureVars
         /\ UNCHANGED <<code, hostVars, started, pc, iframe, listener, loadTimer,
                        cleanupTimer, ctxVars, textVars, errored, halted>>
    ELSE /\ started < MaxRuns
         /\ started' = started + 1
         /\ isRunning' = TRUE
         /\ logs' = <<>>
         /\ error' = Null
         /\ pc' = [pc EXCEPT ![started + 1] = "compiling"]
         /\ runCode' = [runCode EXCEPT ![started + 1] = code]
         /\ compilerIn' = [compilerIn EXCEPT ![started + 1] = CompilerInput(code)]
         /\ ignoredCall' = FALSE
         /\ stopCall' = FALSE
         /\ resetCall' = FALSE
         /\ UNCHANGED pureVars
         /\ halted' = FALSE
         /\ UNCHANGED <<code, iframe, listener, loadTimer, cleanupTimer, ctxVars,
                        compilerOut, loadedText, errored>>

\* transpileCode(code) resolves: instrumentation of the compiled text, then
\* the wait for abiDb.abis.toArray()
CompileOk(r) ==
    /\ pc[r] = "compiling"
    /\ Compiles(compilerIn[r])
    /\ pc' = [pc EXCEPT ![r] = "abis"]
    /\ compilerOut' = [compilerOut EXCEPT ![r] = transpileCode(compilerIn[r])]
    /\ ignoredCall' = FALSE
    /\ stopCall' = FALSE
    /\ resetCall' = FALSE
    /\ UNCHANGED pureVars
    /\ UNCHANGED <<code, hostVars, started, runCode, iframe, listener, loadTimer,
                   cleanupTimer, ctxVars, compilerIn, loadedText, errored, halted>>

\* transpileCode(code) rejects (syntax error, unresolved or unfetchable
\* import, esbuild initialisation failure): the catch block
CompileFail(r) ==
    /\ pc[r] = "compiling"
    /\ Catch(r, ToolchainMessage(compilerIn[r]))
    /\ ignoredCall' = FALSE
    /\ stopCall' = FALSE
    /\ resetCall' = FALSE
    /\ UNCHANGED pureVars
    /\ UNCHANGED <<code, logs, started, iframe, listener, loadTimer, cleanupTimer,
                   ctxVars, textVars, errored>>

\* abiDb.abis.toArray() resolves: the iframe is created, the load timeout is
\* armed, the iframe is appended to document.body
AbisOk(r) ==
    /\ pc[r] = "abis"
    /\ pc' = [pc EXCEPT ![r] = "loading"]
    /\ iframe' = [iframe EXCEPT ![r] = "attached"]
    /\ loadTimer' = [loadTimer EXCEPT ![r] = "armed"]
    /\ ignoredCall' = FALSE
    /\ stopCall' = FALSE
    /\ resetCall' = FALSE
    /\ UNCHANGED pureVars
    /\ UNCHANGED <<code, hostVars, started, listener, cleanupTimer, ctxVars,
                   textVars, errored, halted>>

\* abiDb.abis.toArray() rejects: the catch block
AbisFail(r) ==
    /\ pc[r] = "abis"
    /\ Catch(r, "DatabaseClosedError")
    /\ ignoredCall' = FALSE
    /\ stopCall' = FALSE
    /\ resetCall' = FALSE
    /\ UNCHANGED pureVars
    /\ UNCHANGED <<code, logs, started, iframe, listener, loadTimer, cleanupTimer,
                   ctxVars, textVars, errored>>

\* the instrumentedCode of run r, as handleRun computes it from the compiled text
instrumentedCode(r) == Instrument(compilerOut[r], extractUserVarNames(runCode[r]))

\* window.parent.postMessage: the messages join the context's queue.  A
\* message posted by a context whose listener is not registered (and, the
\* listener being registered in the load step or never, will not be) is
\* accepted by no listener: it is not queued.
Post(queue, heard, msgs) == IF heard THEN queue \o msgs ELSE queue

\* window.__log('script', 'Runtime prelude ready'), the prelude's last statement
PreludeEntry(r) == Entry("script", "Runtime prelude ready", r, 1)

\* iframe.onload, scripts injected: the prelude runs and posts its 'script'
\* event, the load timeout is cleared, the load promise resolves; when
\* handleRun still awaits it, the listener is registered and the cleanup
\* timeout armed
OnloadOk(r) ==
    /\ iframe[r] = "attached"
    /\ iframe' = [iframe EXCEPT ![r] = "loaded"]
    /\ loadedText' = [loadedText EXCEPT ![r] = instrumentedCode(r)]
    /\ ctxBuf' = [ctxBuf EXCEPT ![r] = <<PreludeEntry(r)>>]
    /\ UNCHANGED task
    /\ chan' = [chan EXCEPT ![r] = Post(<<>>, pc[r] = "loading", <<LogMsg(PreludeEntry(r))>>)]
    /\ loadTimer' = [loadTimer EXCEPT ![r] = IF @ = "armed" THEN "cleared" ELSE @]
    /\ IF pc[r] = "loading"
       THEN /\ pc' = [pc EXCEPT ![r] = "executing"]
            /\ listener' = [listener EXCEPT ![r] = TRUE]
            /\ cleanupTimer' = [cleanupTimer EXCEPT ![r] = "armed"]
       ELSE UNCHANGED <<pc, listener, cleanupTimer>>
    /\ ignoredCall' = FALSE
    /\ stopCall' = FALSE
    /\ resetCall' = FALSE
    /\ UNCHANGED pureVars
    /\ UNCHANGED <<code, hostVars, started, runCode, compilerIn, compilerOut,
                   errored, halted>>

\* a failed load step: handleLog of an 'error' entry of value shown, then
\* reject with an Error of message msg, which reaches the catch block when
\* handleRun still awaits the load promise
LoadFailureNoReject(r, shown, msg) ==
    /\ logs' = handleLog(logs, HostEntry(shown))
    /\ UNCHANGED <<error, isRunning, pc, halted>>
LoadFailure(r, shown, msg) ==
    /\ logs' = handleLog(logs, HostEntry(shown))
    /\ IF pc[r] = "loading"
       THEN Catch(r, msg)
       ELSE UNCHANGED <<error, isRunning, pc, halted>>

\* iframe.onload when the document is inaccessible, or when injecting throws
OnloadFail(r) ==
    /\ iframe[r] = "attached"
    /\ iframe' = [iframe EXCEPT ![r] = "broken"]
    /\ \/ LoadFailure(r, "Could not access iframe document",
                          "Could not access iframe document")
       \/ LoadFailure(r, "Iframe setup error: appendChild failed", "appendChild failed")
    /\ ignoredCall' = FALSE
    /\ stopCall' = FALSE
    /\ resetCall' = FALSE
    /\ UNCHANGED pureVars
    /\ UNCHANGED <<code, started, listener, loadTimer, cleanupTimer, ctxVars,
                   textVars, errored>>

\* iframe.onerror
OnError(r) ==
    /\ iframe[r] = "attached"
    /\ iframe' = [iframe EXCEPT ![r] = "broken"]
    /\ LoadFailure(r, "Iframe failed to load", "Failed to load iframe")
    /\ ignoredCall' = FALSE
    /\ stopCall' = FALSE
    /\ resetCall' = FALSE
    /\ UNCHANGED pureVars
    /\ UNCHANGED <<code, started, listener, loadTimer, cleanupTimer, ctxVars,
                   textVars, errored>>

\* the 5 s load timeout fires
LoadTimeout(r) ==
    /\ loadTimer[r] = "armed"
    /\ loadTimer' = [loadTimer EXCEPT ![r] = "fired"]
    /\ LoadFailure(r, "Iframe load timeout", "Iframe load timeout")
    /\ ignoredCall' = FALSE
    /\ stopCall' = FALSE
    /\ resetCall' = FALSE
    /\ UNCHANGED pureVars
    /\ UNCHANGED <<code, started, iframe, listener, cleanupTimer, ctxVars,
                   textVars, errored>>

\* the 8 s cleanup timeout fires: removeEventListener, removeChild,
\* setIsRunning(false).  The context is destroyed with its iframe: its
\* buffer is gone and its undelivered messages find no listener.
RemoveListenerSkipped(l, r) == l
RemoveListener(l, r) == [l EXCEPT ![r] = FALSE]

Cleanup(r) ==
    /\ cleanupTimer[r] = "armed"
    /\ cleanupTimer' = [cleanupTimer EXCEPT ![r] = "fired"]
    /\ listener' = RemoveListener(listener, r)
    /\ iframe' = [iframe EXCEPT ![r] = "removed"]
    /\ isRunning' = FALSE
    /\ pc' = [pc EXCEPT ![r] = "finished"]
    /\ ignoredCall' = FALSE
    /\ stopCall' = FALSE
    /\ resetCall' = FALSE
    /\ UNCHANGED pureVars
    /\ ctxBuf' = [ctxBuf EXCEPT ![r] = <<>>]
    /\ chan' = [chan EXCEPT ![r] = <<>>]
    /\ task' = [task EXCEPT ![r] = 0]
    /\ errored' = errored \ {r}
    /\ Ended(r)
    /\ UNCHANGED <<code, logs, error, started, loadTimer, textVars>>

\* ------------------------------------------------------------- the context
\* What a statement of the user module makes the prelude post: a __log call
\* posts a LOG event of its key, an unhandled rejection an ERROR.
Posts(s) == s.k \in {"__log", "Promise.reject"}

\* The user module runs from one suspension point to the next in one task.
\* Every declaration of the samples awaits its value, so the module suspends
\* at each declaration.  Batches(js, cur) is the sequence of the statement
\* sequences that post, one per task; cur belongs to the task under way.
RECURSIVE Batches(_, _)
Batches(js, cur) ==
    IF js = <<>> THEN (IF cur = <<>> THEN <<>> ELSE <<cur>>)
    ELSE LET s == Head(js)
         IN  IF s.k = "decl"
             THEN (IF cur = <<>> THEN <<>> ELSE <<cur>>) \o Batches(Tail(js), <<>>)
             ELSE IF Posts(s) THEN Batches(Tail(js), Append(cur, s))
             ELSE Batches(Tail(js), cur)

\* window.__log(key, value): push the event to window.__logs, post LOG.
\* The error forwarders: post ERROR, the buffer is left alone.
\* RunTask runs the posting statements of one task in context r, from the
\* state st = [buf, out] of the buffer and of the messages posted.
\* The listeners of 'error' and 'unhandledrejection': post ERROR with the
\* message; window.__logs is not touched.
ForwardAsEvent(st, r) ==
    LET e == Entry("uncaught", "Uncaught error", r, Len(st.buf) + 1)
    IN  [buf |-> Append(st.buf, e), out |-> Append(st.out, LogMsg(e))]
Forward(st, r) == [buf |-> st.buf, out |-> Append(st.out, ErrorMsg("Uncaught error", r))]

RECURSIVE RunTask(_, _, _)
RunTask(st, stmts, r) ==
    IF stmts = <<>> THEN st
    ELSE LET s == Head(stmts)
             e == Entry(s.name, "value", r, Len(st.buf) + 1)
         IN  IF s.k = "__log"
             THEN RunTask([buf |-> Append(st.buf, e), out |-> Append(st.out, LogMsg(e))],
                          Tail(stmts), r)
             ELSE RunTask(Forward(st, r), Tail(stmts), r)

\* the user module of context r runs its next task
Emit(r) ==
    /\ iframe[r] = "loaded"
    /\ task[r] < Len(Batches(loadedText[r], <<>>))
    /\ task' = [task EXCEPT ![r] = @ + 1]
    /\ LET st == RunTask([buf |-> ctxBuf[r], out |-> <<>>],
                         Batches(loadedText[r], <<>>)[task[r] + 1], r)
       IN  /\ ctxBuf' = [ctxBuf EXCEPT ![r] = st.buf]
           /\ chan' = [chan EXCEPT ![r] = Post(@, listener[r], st.out)]
    /\ ignoredCall' = FALSE
    /\ stopCall' = FALSE
    /\ resetCall' = FALSE
    /\ UNCHANGED pureVars
    /\ UNCHANGED <<code, hostVars, started, pc, iframe, listener, loadTimer,
                   cleanupTimer, textVars, errored, halted>>

\* ------------------------------------------------------------- messageHandler
\* if (event.source !== iframe.contentWindow) return
SourceMatches(l, src) == l = src

\* the registered listeners that accept a message posted by context src
Receivers(src) == {l \in Runs : listener[l] /\ SourceMatches(l, src)}

RECURSIVE LogTimes(_, _, _)
LogTimes(prev, log, n) == IF n = 0 THEN prev ELSE LogTimes(handleLog(prev, log), log, n - 1)

\* the window dispatches the oldest undelivered message of context src to
\* every registered listener
Deliver(src) ==
    /\ chan[src] # <<>>
    /\ chan' = [chan EXCEPT ![src] = Tail(@)]
    /\ LET m == Head(chan[src])
           n == Cardinality(Receivers(src))
       IN  IF n = 0 THEN UNCHANGED <<hostVars, errored>>
           ELSE IF m.type = "LOG"
           THEN /\ logs' = IF m.payload.key \in internalKeys THEN logs
                           ELSE LogTimes(logs, m.payload, n)
                /\ UNCHANGED <<isRunning, error, errored>>
           ELSE /\ error' = handleError(m.payload.value).error
                /\ isRunning' = handleError(m.payload.value).isRunning
                /\ errored' = errored \cup {src}
                /\ UNCHANGED logs
    /\ ignoredCall' = FALSE
    /\ stopCall' = FALSE
    /\ resetCall' = FALSE
    /\ UNCHANGED pureVars
    /\ UNCHANGED <<code, started, pc, iframe, listener, loadTimer, cleanupTimer,
                   task, ctxBuf, textVars, halted>>

\* ------------------------------------------------------------- other handlers
\* the handleRun invocation of run r has not ended
InProgress(r) == r \in Runs /\ pc[r] \in {"compiling", "abis", "loading", "executing"}

\* handleStop; the Stop button is rendered only while isRunning
HandleStopClearsLogs ==
    /\ isRunning
    /\ isRunning' = FALSE
    /\ error' = Null
    /\ logs' = <<>>
    /\ halted' = (halted \/ (isRunning /\ InProgress(started)))
    /\ ignoredCall' = FALSE
    /\ stopCall' = TRUE
    /\ resetCall' = FALSE
    /\ UNCHANGED pureVars
    /\ UNCHANGED <<code, started, pc, iframe, listener, loadTimer, cleanupTimer,
                   ctxVars, textVars, errored>>
HandleStop ==
    /\ isRunning
    /\ isRunning' = FALSE
    /\ error' = Null
    /\ halted' = (halted \/ (isRunning /\ InProgress(started)))
    /\ ignoredCall' = FALSE
    /\ stopCall' = TRUE
    /\ resetCall' = FALSE
    /\ UNCHANGED pureVars
    /\ UNCHANGED <<code, logs, started, pc, iframe, listener, loadTimer, cleanupTimer,
                   ctxVars, textVars, errored>>

\* handleClearLogs
HandleClearLogs ==
    /\ logs' = <<>>
    /\ error' = Null
    /\ ignoredCall' = FALSE
    /\ stopCall' = FALSE
    /\ resetCall' = FALSE
    /\ UNCHANGED pureVars
    /\ UNCHANGED <<code, isRunning, started, pc, iframe, listener, loadTimer,
                   cleanupTimer, ctxVars, textVars, errored, halted>>

\* handleReset, no script selected
HandleReset ==
    /\ code' = getDefaultCode
    /\ logs' = <<>>
    /\ error' = Null
    /\ isRunning' = FALSE
    /\ halted' = (halted \/ (isRunning /\ InProgress(started)))
    /\ ignoredCall' = FALSE
    /\ stopCall' = FALSE
    /\ resetCall' = TRUE
    /\ UNCHANGED pureVars
    /\ UNCHANGED <<started, pc, iframe, listener, loadTimer, cleanupTimer, ctxVars,
                   textVars, errored>>

Next ==
    \/ HandleRun
    \/ HandleStop
    \/ HandleClearLogs
    \/ HandleReset
    \/ \E r \in Runs : CompileOk(r)
    \/ \E r \in Runs : CompileFail(r)
    \/ \E r \in Runs : AbisOk(r)
    \/ \E r \in Runs : AbisFail(r)
    \/ \E r \in Runs : OnloadOk(r)
    \/ \E r \in Runs : OnloadFail(r)
    \/ \E r \in Runs : OnError(r)
    \/ \E r \in Runs : LoadTimeout(r)
    \/ \E r \in Runs : Cleanup(r)
    \/ \E r \in Runs : Emit(r)
    \/ \E r \in Runs : Deliver(r)

Spec == Init /\ [][Next]_vars

\* an armed timer fires: the browser runs the callback of a timeout that
\* is not cancelled
FairSpec == Spec /\ \A r \in Runs : WF_vars(Cleanup(r))

\* the editor holds the script with the variable named like a prelude key
KeyInit == InitRunFrom({SrcReserved}) /\ InitSerIdle /\ InitInsIdle /\ InitAux
KeySpec == KeyInit /\ [][Next]_vars

\* ------------------------------------------------------------- properties
\* the iframe of run r is a child of document.body
InDocument(r) == iframe[r] \in {"attached", "loaded", "broken"}

\* the events of context r in the host's list, in list order
EventsOf(r) == SelectSeq(logs, LAMBDA e : e.origin = r)

IsPrefix(a, b) == Len(a) <= Len(b) /\ SubSeq(b, 1, Len(a)) = a

\* this step delivers an ERROR message of context r to r's listener
DeliveredError(r) ==
    /\ listener[r] /\ listener'[r]
    /\ chan[r] # <<>>
    /\ Head(chan[r]).type = "ERROR"
    /\ chan'[r] = Tail(chan[r])

\* this step runs the catch block of run r
Caught(r) == pc[r] # "failed" /\ pc'[r] = "failed"

\* run r failed in transpileCode
CompileFailed(r) == pc[r] = "failed" /\ compilerOut[r] = Unset

\* C1: a handleRun call made while a run is running has no effect: while
\* isRunning holds no step starts a run, and the step of such a call leaves
\* the runs, their iframes, listeners and timers, the contexts, logs, error
\* and isRunning as they were.
C1_RunWhileRunningIsNoop ==
    [][ /\ (isRunning => started' = started)
        /\ (ignoredCall' =>
              UNCHANGED <<code, hostVars, started, pc, iframe, listener, loadTimer,
                          cleanupTimer, ctxVars, textVars, errored, halted>>) ]_vars

C1_Witness == ignoredCall /\ isRunning /\ started > 0 /\ pc[started] = "executing"

\* C2: the listeners of two different runs are never registered at the same
\* time, nor are the iframes of two different runs in the document at the
\* same time (the previous run is torn down before a new context is created).
C2_OneContextAtATime ==
    \A r1, r2 \in Runs :
        r1 # r2 => ~(listener[r1] /\ listener[r2]) /\ ~(InDocument(r1) /\ InDocument(r2))

\* C3: every event of the host's list that a context emitted was emitted by
\* the context of the most recently started run.
C3_OnlyLatestRunEvents ==
    \A i \in DOMAIN logs : logs[i].origin # 0 => logs[i].origin = started

C5_NoLeakOnFailure ==
    \A r \in Runs :
        (pc[r] \in {"failed", "finished"} /\ loadTimer[r] # "armed" /\ iframe[r] # "attached")
            => ~InDocument(r) /\ ~listener[r]

\* C6: for every run, its events appear in the host's list in the order its
\* context emitted them, none twice, none under a reserved key, and each is
\* the entry at its position of the context's own buffer.
C6_EmissionOrderKept ==
    \A r \in Runs :
        LET mine == EventsOf(r)
        IN  /\ \A i, j \in DOMAIN mine : i < j => mine[i].seq < mine[j].seq
            /\ \A i \in DOMAIN mine : mine[i].key \notin internalKeys
            /\ iframe[r] = "loaded" =>
                  \A i \in DOMAIN mine :
                      /\ mine[i].seq \in DOMAIN ctxBuf[r]
                      /\ ctxBuf[r][mine[i].seq] = mine[i]

C6_Witness == \E r \in Runs : Len(EventsOf(r)) >= 2 /\ iframe[r] = "loaded"

\* C7: the step in which an error arrives (an ERROR message accepted by the
\* run's listener, or the catch block) sets the error message and leaves
\* isRunning false; an ERROR message leaves the host's list as it was, and
\* the catch block keeps every event already in the list.
C7_ErrorStopsRunKeepsEvents ==
    [][\A r \in Runs :
          /\ DeliveredError(r) =>
                /\ error' = Head(chan[r]).payload.value
                /\ ~isRunning'
                /\ logs' = logs
          /\ Caught(r) => error' # Null /\ ~isRunning' /\ IsPrefix(logs, logs')]_vars

C7_Witness ==
    \E r \in Runs : error = "Uncaught error" /\ ~isRunning /\ Len(EventsOf(r)) >= 1
                    /\ r \in errored /\ chan[r] # <<>>

\* this step surfaces an error of run r
Surfaces(r) == DeliveredError(r) \/ Caught(r)

\* C8: a run surfaces at most one error, and none after it was stopped: no
\* step surfaces an error of a run that has surfaced one already, or of the
\* latest run after stop or reset was called on it.
C8_OneErrorPerRun ==
    [][\A r \in Runs : Surfaces(r) => r \notin errored /\ ~(halted /\ r = started)]_vars

\* C9: the step in which transpileCode fails sets error to the toolchain's
\* message and leaves isRunning false, and a run that failed there has no
\* iframe, no listener and no timer.
C9_CompileErrorBeforeSandbox ==
    /\ [][\A r \in Runs :
            (pc[r] = "compiling" /\ pc'[r] = "failed")
                => error' = ToolchainMessage(runCode[r]) /\ ~isRunning']_vars
    /\ [](\A r \in Runs :
            CompileFailed(r) =>
                /\ iframe[r] = "none"
                /\ ~listener[r]
                /\ loadTimer[r] = "unset"
                /\ cleanupTimer[r] = "unset")

C9_Witness ==
    \E r \in Runs : CompileFailed(r) /\ error = ToolchainMessage(runCode[r]) /\ ~isRunning

\* the number of statements of kind k in a text
Count(js, k) == Cardinality({i \in DOMAIN js : js[i].k = k})

LoadFailed(r) == pc[r] = "loading" /\ pc'[r] = "failed"

\* the messages the load promise rejects with
LoadErrors == {"Could not access iframe document", "appendChild failed",
               "Failed to load iframe", "Iframe load timeout"}

\* C11 as claimed: the step in which the load of a run fails sets the error
\* message, leaves isRunning false, and leaves the host's list empty.
C11_LoadFailureEmptyList ==
    [][\A r \in Runs : LoadFailed(r) => error' # Null /\ ~isRunning' /\ logs' = <<>>]_vars

\* C11 as amended: the step in which the load of a run fails sets the error
\* to the load failure's message, leaves isRunning false and appends to the
\* host's list one host entry of key "error" and nothing else; a fired load
\* timeout has ended its run; and the list never holds an event that the
\* context of a failed run emitted.
C11_LoadFailureLogsHostEntry ==
    /\ [][\A r \in Runs :
            LoadFailed(r) =>
                /\ error' \in LoadErrors
                /\ ~isRunning'
                /\ Len(logs') = Len(logs) + 1
                /\ IsPrefix(logs, logs')
                /\ logs'[Len(logs')].key = "error"
                /\ logs'[Len(logs')].origin = 0]_vars
    /\ [](\A r \in Runs : loadTimer[r] = "fired" => pc[r] = "failed")
    /\ [](\A r \in Runs : pc[r] = "failed" => EventsOf(r) = <<>>)

C11_Witness ==
    \E r \in Runs : /\ loadTimer[r] = "fired"
                    /\ pc[r] = "failed"
                    /\ error = "Iframe load timeout"
                    /\ ~isRunning
                    /\ logs = <<HostEntry("Iframe load timeout")>>

\* C12: the step of a handleStop call leaves isRunning false and error
\* null and changes nothing else: the source text, the host's list, the
\* runs and their position, the iframes, listeners, load and cleanup timers
\* and the contexts are as they were.
C12_StopOnlyClearsRunningAndError ==
    [][stopCall' =>
          /\ ~isRunning'
          /\ error' = Null
          /\ UNCHANGED <<code, logs, started, pc, iframe, listener, loadTimer,
                         cleanupTimer, ctxVars, textVars>>]_vars

C12_Witness ==
    /\ stopCall
    /\ ~isRunning
    /\ logs # <<>>
    /\ started > 0
    /\ listener[started]
    /\ iframe[started] = "loaded"
    /\ cleanupTimer[started] = "armed"

\* C13: the step of a handleReset call (no script selected) leaves the
\* source text the default sample, the host's list empty, the error null
\* and isRunning false; and the step that follows a reset, unless it starts
\* a run, leaves the list empty, the error null and isRunning false (the
\* first step of "they stay so until the next startRun").
C13_ResetClearsUntilNextRun ==
    [][/\ resetCall' =>
             code' = getDefaultCode /\ logs' = <<>> /\ error' = Null /\ ~isRunning'
       /\ (resetCall /\ started' = started) =>
             logs' = <<>> /\ error' = Null /\ ~isRunning']_vars

\* ------------------------------------------------------------- serializer properties
Circular == Str("[Circular]")
DepthMarker == Str("[MaxDepth]")
IsStruct(out) == out.t \in {"object", "array"}

\* every entry of a serialized plain object that holds the object itself is
\* the circular marker
RECURSIVE SelfRefsCircular(_)
SelfRefsCircular(out) ==
    IsStruct(out) =>
        \A i \in DOMAIN out.kids :
            /\ (out.t = "object" /\ heap[out.node].kids[i] = Ref(out.node))
                   => out.kids[i] = Circular
            /\ SelfRefsCircular(out.kids[i])

\* C14 as claimed: the serialization of a value ends, and in its result
\* every position where a plain object holds itself is '[Circular]'.
C14_SelfReferenceIsCircular ==
    serOut # Pending => SelfRefsCircular(serOut)

\* level is the nesting level of out below the root: an entry of a plain
\* object that holds the object itself is the circular marker at level 3 or
\* less and the depth marker at level 4, and so never a structure
RECURSIVE SelfRefsMarked(_, _)
SelfRefsMarked(out, level) ==
    IsStruct(out) =>
        \A i \in DOMAIN out.kids :
            /\ (out.t = "object" /\ heap[out.node].kids[i] = Ref(out.node))
                   => /\ out.kids[i] = (IF level + 1 <= 3 THEN Circular ELSE DepthMarker)
                      /\ ~IsStruct(out.kids[i])
            /\ SelfRefsMarked(out.kids[i], level + 1)

\* C14 as amended: the serialization of a value ends, and in its result
\* every position where a plain object holds itself is '[Circular]' when it
\* lies at nesting level 3 or less and '[MaxDepth]' at level 4; the object
\* is never descended again there.
C14_SelfReferenceIsMarked ==
    serOut # Pending => SelfRefsMarked(serOut, 0)

C14_Witness ==
    /\ serOut.t = "object"
    /\ \E i \in DOMAIN serOut.kids : heap[1].kids[i] = Ref(1) /\ serOut.kids[i] = Circular
    /\ \E i \in DOMAIN serOut.kids : IsStruct(serOut.kids[i])

\* anc holds the nodes on the path from the root to out: an entry rendered
\* as the circular marker holds a node of the path
RECURSIVE CircularOnlyOnPath(_, _)
CircularOnlyOnPath(out, anc) ==
    IsStruct(out) =>
        \A i \in DOMAIN out.kids :
            /\ out.kids[i] = Circular =>
                   /\ heap[out.node].kids[i].leaf = "node"
                   /\ heap[out.node].kids[i].ref \in anc \cup {out.node}
            /\ CircularOnlyOnPath(out.kids[i], anc \cup {out.node})

\* C15: only an object that is an ancestor on the current path is rendered
\* as '[Circular]': an object held twice by non-ancestors is never.
C15_CircularOnlyForAncestors ==
    serOut # Pending => CircularOnlyOnPath(serOut, {})

\* level is the nesting level of out below the root.  An entry at level 4
\* is the depth marker whatever it holds; an entry at level 3 or less is
\* never the depth marker: a number is itself, an object not met before is
\* an object with all its keys.  (A property whose getter throws holds no
\* value: it is '[Unserializable]' at any level.)
RECURSIVE DepthBounded(_, _)
DepthBounded(out, level) ==
    IsStruct(out) =>
        /\ level <= 3
        /\ \A i \in DOMAIN out.kids :
              LET kid == heap[out.node].kids[i]
                  o == out.kids[i]
              IN  /\ (level + 1 = 4 /\ kid.leaf # "getter") => o = DepthMarker
                  /\ level + 1 <= 3 =>
                        /\ o # DepthMarker
                        /\ kid.leaf = "number" => o = Out("number", "1")
                        /\ (kid.leaf = "node" /\ heap[kid.ref].kind = "object") =>
                              \/ o = Circular
                              \/ /\ o.t = "object"
                                 /\ o.node = kid.ref
                                 /\ Len(o.kids) = Len(heap[kid.ref].kids)
                  /\ DepthBounded(o, level + 1)

\* C16: with maxDepth = 3, what sits at the 4th nesting level below the
\* root, a primitive included, is replaced by '[MaxDepth]', and every value
\* at nesting level 3 or less is serialized in full.
C16_DepthMarkerAtLevelFour ==
    serOut # Pending =>
        /\ serOut # DepthMarker
        /\ serRoot.leaf = "number" => serOut = Out("number", "1")
        /\ DepthBounded(serOut, 0)

\* {a: {b: {c: {d: 1}}}}
C16_Witness ==
    /\ serOut.t = "object"
    /\ serOut.kids[1].t = "object"
    /\ serOut.kids[1].kids[1].t = "object"
    /\ serOut.kids[1].kids[1].kids[1].t = "object"
    /\ heap[serOut.kids[1].kids[1].kids[1].node].kids[1] = Leaf("number")
    /\ serOut.kids[1].kids[1].kids[1].kids[1] = DepthMarker

\* C17: serializing never raises, whatever the value (undefined, an invalid
\* date, an array whose element fails, an object whose getter throws), and
\* the trace emission of the value is never aborted: the event is pushed.
C17_SerializeNeverRaises ==
    serOut # Pending => serOut.t # "throw" /\ Len(serLogs) = 1

\* ------------------------------------------------------------- rewriting properties
\* the number of calls __log("n", ..) in a text
CallsFor(ts, n) ==
    Cardinality({i \in 1..(Len(ts) - 3) :
                    ts[i] = "__log" /\ ts[i + 1] = "(" /\ ts[i + 2] = "'" /\ ts[i + 3] = n})

\* the number of statements of the source that declare n
DeclsOf(n) ==
    Cardinality({i \in DOMAIN insSrc : insSrc[i][1] \in Kw /\ insSrc[i][2] = n})

\* pat is a run of consecutive tokens of ts
Contains(ts, pat) ==
    \E k \in 0..(Len(ts) - Len(pat)) : SubSeq(ts, k + 1, k + Len(pat)) = pat

\* C18: rewriting a text yields one trace call per declaration of a
\* collected name (one for x in "const x = 1;"), and rewriting that output
\* again, with the names collected from the original source, adds no
\* second call.
C18_RewriteTwiceAddsNoCall ==
    /\ insOut # NoText =>
          \A n \in userVarNames(Flatten(insSrc)) : CallsFor(insOut, n) = DeclsOf(n)
    /\ insAgain # NoText =>
          \A n \in userVarNames(Flatten(insSrc)) : CallsFor(insAgain, n) = CallsFor(insOut, n)

\* the arguments of a console.log statement of the source
ArgsOf(stmt) == SubSeq(stmt, 3, Len(stmt) - 2)

\* C19: every console.log call of the source becomes one call
\* __log("console", [ args ]) whose array holds all the arguments of the
\* call, complete and in order, and no console.log call is left.
C19_ConsoleArgsKept ==
    insOut # NoText =>
        /\ \A i \in DOMAIN insSrc :
              insSrc[i][1] = "console.log" =>
                  Contains(insOut, <<"__log", "(", "'", "console", "'", ",", "[">>
                                   \o ArgsOf(insSrc[i]) \o <<"]", ")", ";">>)
        /\ CallsFor(insOut, "console") =
              Cardinality({i \in DOMAIN insSrc : insSrc[i][1] = "console.log"})
        /\ \A i \in DOMAIN insOut : insOut[i] # "console.log"

\* the denylist of setup identifiers
SetupNames == {"client", "http", "mainnet", "createPublicClient"}

\* C20: a declaration whose name is on the denylist, or whose right-hand
\* side refers to the client library, gets no trace call.
C20_SetupDeclarationsNotLogged ==
    insOut # NoText =>
        \A i \in DOMAIN insSrc :
            (/\ insSrc[i][1] \in Kw
             /\ \/ insSrc[i][2] \in SetupNames
                \/ \E j \in DOMAIN insSrc[i] : insSrc[i][j] = "createPublicClient")
                => CallsFor(insOut, insSrc[i][2]) = 0

\* the messages of type t in a queue
OfType(queue, t) == SelectSeq(queue, LAMBDA m : m.type = t)

\* the posting statements of the task that this step runs in context r
TaskRun(r) == Batches(loadedText[r], <<>>)[task'[r]]

\* C21: an uncaught error or unhandled rejection in a context adds no entry
\* to the context's buffer and posts one ERROR message that carries the
\* message; an ERROR message accepted by the listener sets the error to its
\* message and leaves the host's list as it was; no entry of a buffer or of
\* the host's list holds the message of an uncaught error.
C21_UncaughtErrorsAreNotEvents ==
    /\ [][\A r \in Runs :
            /\ task'[r] = task[r] + 1 =>
                  /\ Len(ctxBuf'[r]) = Len(ctxBuf[r]) + Count(TaskRun(r), "__log")
                  /\ listener[r] =>
                        Len(OfType(chan'[r], "ERROR")) =
                            Len(OfType(chan[r], "ERROR")) + Count(TaskRun(r), "Promise.reject")
            /\ DeliveredError(r) => error' = "Uncaught error" /\ logs' = logs]_vars
    /\ [](\A r \in Runs :
            /\ \A i \in DOMAIN ctxBuf[r] : ctxBuf[r][i].value # "Uncaught error"
            /\ \A i \in DOMAIN chan[r] :
                  chan[r][i].type = "ERROR" <=> chan[r][i].payload.value = "Uncaught error")
    /\ [](\A i \in DOMAIN logs : logs[i].value # "Uncaught error")

C21_Witness ==
    \E r \in Runs : /\ r \in errored
                    /\ error = "Uncaught error"
                    /\ task[r] = 1
                    /\ Len(ctxBuf[r]) = 2
                    /\ Len(logs) = 1
                    /\ logs[1] = ctxBuf[r][2]

\* this step delivers a LOG message of context r to r's listener
DeliveredLog(r) ==
    /\ listener[r] /\ listener'[r]
    /\ chan[r] # <<>>
    /\ Head(chan[r]).type = "LOG"
    /\ chan'[r] = Tail(chan[r])

\* the event was emitted by the trace call of a declaration of the script
UserVariableEvent(e) ==
    e.origin \in Runs /\ e.value = "value" /\ e.key \in extractUserVarNames(runCode[e.origin])

\* C22: every window.__log call posts a LOG message, the prelude's own call
\* with the key 'script' included; the listener drops a LOG message whose
\* key is reserved and appends every other one; and the event of a user
\* variable is appended, never dropped.
C22_OnlyReservedKeysDropped ==
    [][\A r \in Runs :
          /\ (task'[r] = task[r] + 1 /\ listener[r]) =>
                Len(OfType(chan'[r], "LOG")) =
                    Len(OfType(chan[r], "LOG")) + Count(TaskRun(r), "__log")
          /\ (iframe[r] = "attached" /\ iframe'[r] = "loaded" /\ listener'[r]) =>
                chan'[r] = <<LogMsg(PreludeEntry(r))>>
          /\ DeliveredLog(r) =>
                LET e == Head(chan[r]).payload
                IN  /\ (e.key \in internalKeys /\ ~UserVariableEvent(e)) => logs' = logs
                    /\ (e.key \notin internalKeys \/ UserVariableEvent(e)) =>
                          logs' = Append(logs, e)]_vars

\* this step fires the 8 s cleanup timer of run r
CleanupFired(r) == cleanupTimer[r] = "armed" /\ cleanupTimer'[r] = "fired"

\* C23: the cleanup timer and the ERROR messages of a run that is not the
\* latest one leave isRunning and error as they are: they never mark a
\* later run as not running and never set its error.
C23_OnlyOwnRunChangesRunState ==
    [][\A r \in Runs :
          ((CleanupFired(r) \/ DeliveredError(r)) /\ r < started) =>
              isRunning' = isRunning /\ error' = error]_vars

\* stop or reset was called on run r, the latest one, while it was compiling,
\* waiting for the stored ABIs or waiting for its iframe to load, where it
\* still is
HaltedBeforeExecution(r) ==
    halted /\ r = started /\ pc[r] \in {"compiling", "abis", "loading"}

\* C24: a run on which stop or reset was called before its iframe had
\* loaded creates no iframe afterwards, has no user module injected and
\* runs no task of a user module.
C24_StoppedRunCreatesNoContext ==
    [][\A r \in Runs :
          HaltedBeforeExecution(r) =>
              /\ iframe[r] = "none" => iframe'[r] = "none"
              /\ iframe'[r] # "loaded"
              /\ loadedText'[r] = loadedText[r]
              /\ task'[r] = task[r]]_vars

\* the load promise of run r was settled by onload or onerror
LoadSettled(r) == iframe[r] \in {"loaded", "broken", "removed"}

\* this step fires the 5 s load timer of run r, which appends its entry
TimeoutFired(r) == loadTimer[r] = "armed" /\ loadTimer'[r] = "fired"

\* the 'Iframe load timeout' entries of a list
TimeoutEntries(list) == SelectSeq(list, LAMBDA e : e.value = "Iframe load timeout")

\* C26: when onload or onerror has settled the load promise of a run, on
\* the successful path and on each failing one, the run's load timer is no
\* longer armed: it never fires afterwards, and no step in which all load
\* promises with a timer are settled appends an 'Iframe load timeout' entry
\* to the host's list.
C26_LoadTimerCancelledOnExit ==
    /\ [](\A r \in Runs : LoadSettled(r) => loadTimer[r] # "armed")
    /\ [][\A r \in Runs : LoadSettled(r) => ~TimeoutFired(r)]_vars
    /\ [][(\A r \in Runs : loadTimer[r] = "armed" => LoadSettled(r)) =>
             Len(TimeoutEntries(logs')) <= Len(TimeoutEntries(logs))]_vars

\* C28: in every reachable state, for any interleaving of run, stop, reset,
\* clear, timers and messages, a non-null error implies that isRunning is
\* false.
C28_ErrorImpliesNotRunning == error # Null => ~isRunning

\* an error of the first run shown while the second run is in progress
C28_Witness ==
    /\ error = "Uncaught error"
    /\ ~isRunning
    /\ started = 2
    /\ InProgress(2)
    /\ 1 \in errored

\* this step invokes esbuild.initialize
Invokes == initializing' = initializing + 1

\* this step is a transpileCode call
Called == \E c \in Calls : callPc[c] = "new" /\ callPc'[c] # "new"

\* C25: for any interleaving of transpileCode calls, at most one
\* esbuild.initialize invocation is pending at a time, esbuild.initialize
\* is invoked only while none is pending and none has succeeded, and a
\* call made when none is pending and none has succeeded (the first call,
\* or a call after a failed initialization) invokes it.
C25_InitializedAtMostOnce ==
    /\ [](Cardinality(PendingInit) <= 1)
    /\ [][Invokes => PendingInit = {} /\ ~esbuildInitialized]_vars
    /\ [][(Called /\ PendingInit = {} /\ ~esbuildInitialized) => Invokes]_vars

\* C27: for every table of named constants, once the scripts are injected
\* and when the user module starts, window.__log, window.__logs,
\* window.__safeSerialize and window.__formatConsole are the bindings the
\* prelude made.
C27_ConstantsKeepPrelude ==
    injected \in {"scripts", "module"} => \A g \in PreludeGlobals : window[g] = "prelude"

\* this step selects a stored script
Selects == currentScript' # currentScript

\* C29: the step that selects a stored script leaves every stored content
\* as it is; and a step changes the stored content of a script only when
\* that script is the selected one before and after the step, and then to
\* the text the user enters in that step.
C29_SelectingKeepsStoredContent ==
    [][/\ Selects => stored' = stored
       /\ \A i \in ScriptIds :
             stored'[i] # stored[i] =>
                 /\ currentScript.id = i
                 /\ currentScript' = currentScript
                 /\ code' # code
                 /\ stored'[i] = code']_vars

\* the index of the event of key k received last, 0 when there is none
LastOf(list, k) ==
    LET idx == {i \in DOMAIN list : list[i].key = k}
    IN  IF idx = {} THEN 0 ELSE CHOOSE i \in idx : \A j \in idx : j <= i

\* C30: for every key with an event, the entry latestByKey keeps is the
\* event of that key received last, whatever the timestamps, equal ones
\* included.
C30_InlineValueIsLatestReceived ==
    \A k \in LogKeys :
        LastOf(editorLogs, k) # 0 =>
            latestByKey(editorLogs)[k] = editorLogs[LastOf(editorLogs, k)]
====
